---- MODULE Spec2Model ----
(***************************************************************************)
(* FinRisk-ai: the analysis operations of FraudAnalyzer                    *)
(* (src/eda/fraud_analysis.py), CreditAnalyzer (src/eda/credit_analysis.py)*)
(* and load_data (src/utils/data_loader.py) as a state machine.            *)
(*                                                                         *)
(* A dataset (pandas DataFrame) is a sequence of rows; a row is a record   *)
(* of optional values: NaN (missing) is <<>>, a present value v is <<v>>.  *)
(* Column values are integers; a mean, a rate or a threshold is an exact   *)
(* rational [num, den] with den > 0, so every comparison the code makes in *)
(* floating point is made here in exact arithmetic.                        *)
(***************************************************************************)
EXTENDS Integers, Sequences, FiniteSets

VARIABLES
    data,        \* FraudAnalyzer.data: the transaction dataset
    creditData,  \* CreditAnalyzer.data: the credit dataset
    fs,          \* the files load_data may be pointed at: path -> content
    op,          \* the last operation called ("none" before any call)
    args,        \* its arguments
    result       \* what it returned

vars == <<data, creditData, fs, op, args, result>>

----------------------------------------------------------------------------
(* Bounds of the model *)

MaxRows == 3

----------------------------------------------------------------------------
(* Optional values and rationals *)

NaN == <<>>

(* Python None, where an argument is optional: None is <<>>, a value <<v>> *)
None == <<>>

Some(v) == <<v>>

IsNA(v) == v = NaN

Val(v) == v[1]

Rat(n, d) == [num |-> n, den |-> d]

RatGT(a, b) == a.num * b.den > b.num * a.den

RatGE(a, b) == a.num * b.den >= b.num * a.den

RatEQ(a, b) == a.num * b.den = b.num * a.den

RECURSIVE SetSum(_, _)
SetSum(f, S) ==
    IF S = {} THEN 0
    ELSE LET x == CHOOSE y \in S : TRUE
         IN  f[x] + SetSum(f, S \ {x})

RECURSIVE SortAsc(_)
SortAsc(S) ==
    IF S = {} THEN <<>>
    ELSE LET m == CHOOSE y \in S : \A z \in S : y <= z
         IN  <<m>> \o SortAsc(S \ {m})

SeqsUpTo(S, n) == UNION {[1..k -> S] : k \in 0..n}

Range(s) == {s[i] : i \in DOMAIN s}

----------------------------------------------------------------------------
(* pandas Series reductions, over the rows I of dataset d, column c.       *)
(* count/sum/mean skip missing values (skipna); the mean of no value is    *)
(* NaN, the sum of no value is 0.                                          *)

Present(d, c, I) == {i \in I : ~IsNA(d[i][c])}

Count(d, c, I) == Cardinality(Present(d, c, I))

Sum(d, c, I) == SetSum([i \in Present(d, c, I) |-> Val(d[i][c])], Present(d, c, I))

Mean(d, c, I) ==
    IF Count(d, c, I) = 0 THEN NaN
    ELSE Some(Rat(Sum(d, c, I), Count(d, c, I)))

(* DataFrame.groupby(key): one group per distinct non-missing key (rows    *)
(* whose key is missing belong to no group), groups in ascending key order.*)
GroupKeys(d, key) == {Val(d[i][key]) : i \in Present(d, key, DOMAIN d)}

GroupRows(d, key, k) == {i \in DOMAIN d : ~IsNA(d[i][key]) /\ Val(d[i][key]) = k}

----------------------------------------------------------------------------
(* FraudAnalyzer.get_high_risk_merchants *)

merchant_risk(d) ==
    LET keys == SortAsc(GroupKeys(d, "merchant_category"))
    IN  [j \in DOMAIN keys |->
            [merchant_category |-> keys[j],
             transaction_id |-> Count(d, "transaction_id",
                                      GroupRows(d, "merchant_category", keys[j])),
             is_fraud |-> Mean(d, "is_fraud",
                               GroupRows(d, "merchant_category", keys[j]))]]

(* a comparison with NaN is False *)
RateGE(rate, thr) == ~IsNA(rate) /\ RatGE(Val(rate), thr)

(* the rate bound made exclusive: > where the code has >= *)
HighRiskRowStrict(row, min_transactions, risk_threshold) ==
    /\ row.transaction_id >= min_transactions
    /\ ~IsNA(row.is_fraud)
    /\ RatGT(Val(row.is_fraud), risk_threshold)

(* line 111-114: the filter of one aggregated row, both bounds inclusive *)
HighRiskRow(row, min_transactions, risk_threshold) ==
    /\ row.transaction_id >= min_transactions
    /\ RateGE(row.is_fraud, risk_threshold)

high_risk(d, min_transactions, risk_threshold) ==
    SelectSeq(merchant_risk(d),
              LAMBDA row : HighRiskRow(row, min_transactions, risk_threshold))

Perms(n) == {p \in [1..n -> 1..n] : \A i, j \in 1..n : i # j => p[i] # p[j]}

Reorderings(tbl) == {[i \in DOMAIN tbl |-> tbl[p[i]]] : p \in Perms(Len(tbl))}

Descending(s) ==
    \A i, j \in DOMAIN s : i < j => RatGE(Val(s[i].is_fraud), Val(s[j].is_fraud))

Ascending(s) ==
    \A i, j \in DOMAIN s : i < j => RatGE(Val(s[j].is_fraud), Val(s[i].is_fraud))

(* ascending=False left out: the rows by non-decreasing is_fraud *)
sort_values_ascending(tbl) == {s \in Reorderings(tbl) : Ascending(s)}

(* DataFrame.sort_values('is_fraud', ascending=False) with the default     *)
(* kind='quicksort', which is not a stable sort: the outcome is some       *)
(* ordering of the rows by non-increasing is_fraud, and the order of rows  *)
(* with equal is_fraud is whatever the sort of the build leaves.           *)
sort_values_descending(tbl) == {s \in Reorderings(tbl) : Descending(s)}

MinTransactions == {0, 1, 2}

RiskThresholds == {Rat(0, 1), Rat(1, 2), Rat(1, 1)}

GetHighRiskMerchants ==
    \E min_transactions \in MinTransactions, risk_threshold \in RiskThresholds :
        /\ op' = "get_high_risk_merchants"
        /\ args' = [min_transactions |-> min_transactions,
                    risk_threshold |-> risk_threshold]
        /\ result' \in sort_values_descending(
                           high_risk(data, min_transactions, risk_threshold))
        /\ UNCHANGED <<data, creditData, fs>>

----------------------------------------------------------------------------
(* FraudAnalyzer.detect_anomalies *)

SumSq(d, c, I) ==
    SetSum([i \in Present(d, c, I) |-> Val(d[i][c]) * Val(d[i][c])], Present(d, c, I))

(* What self.data[feature].mean() and self.data[feature].std() are computed *)
(* from, over the present values of column c: their number n, their sum S, *)
(* and V = n * sum(x^2) - S^2 = n * sum((x - mean)^2). mean = S / n; std is *)
(* the sample standard deviation (ddof=1), sqrt(V / (n * (n - 1))), and NaN *)
(* with fewer than two present values.                                     *)
FeatureStats(d, c) ==
    LET n == Count(d, c, DOMAIN d)
        S == Sum(d, c, DOMAIN d)
    IN  [n |-> n, S |-> S, V |-> n * SumSq(d, c, DOMAIN d) - S * S]

StdIsNaN(st) == st.n < 2

(* np.abs((x - mean) / std) for a cell x, as the rational that is its      *)
(* square:  ((n*x - S)/n)^2 / (V / (n*(n-1))) = (n*x - S)^2 * (n-1) / (n*V). *)
(* It is NaN when x is missing, when std is NaN, and when std is 0 (then   *)
(* every present x equals the mean and the quotient is 0/0).               *)
zscore_sq(x, st) ==
    IF IsNA(x) \/ StdIsNaN(st) \/ st.V = 0 THEN NaN
    ELSE Some(Rat((st.n * Val(x) - st.S) * (st.n * Val(x) - st.S) * (st.n - 1),
                  st.n * st.V))

(* |z| < threshold, for a defined z: the comparison turned around *)
BelowThreshold(zsq, threshold) ==
    /\ ~IsNA(zsq)
    /\ threshold.num > 0
    /\ Val(zsq).num * threshold.den * threshold.den
           < threshold.num * threshold.num * Val(zsq).den

(* NaN counted as exceeding: what propagating the missing value would do *)
ExceedsOrNaN(zsq, threshold) ==
    \/ IsNA(zsq)
    \/ threshold.num < 0
    \/ Val(zsq).num * threshold.den * threshold.den
           > threshold.num * threshold.num * Val(zsq).den

(* z_scores_df > threshold for one cell: False for NaN; |z| >= 0 exceeds   *)
(* every negative threshold; otherwise both sides are squared.             *)
Exceeds(zsq, threshold) ==
    /\ ~IsNA(zsq)
    /\ \/ threshold.num < 0
       \/ Val(zsq).num * threshold.den * threshold.den
              > threshold.num * threshold.num * Val(zsq).den

(* .all(axis=1) in place of .any(axis=1): every feature must exceed *)
AnomalyMaskAll(d, features, threshold) ==
    LET stats == [k \in DOMAIN features |-> FeatureStats(d, features[k])]
    IN  [i \in DOMAIN d |->
            \A k \in DOMAIN features :
                Exceeds(zscore_sq(d[i][features[k]], stats[k]), threshold)]

(* (z_scores_df > threshold).any(axis=1) *)
AnomalyMask(d, features, threshold) ==
    LET stats == [k \in DOMAIN features |-> FeatureStats(d, features[k])]
    IN  [i \in DOMAIN d |->
            \E k \in DOMAIN features :
                Exceeds(zscore_sq(d[i][features[k]], stats[k]), threshold)]

(* self.data[mask].copy(): the rows whose mask is True, in dataset order,  *)
(* each with its index label and all of its columns.                       *)
SelectRows(d, mask) ==
    LET idx == SelectSeq([i \in DOMAIN d |-> i], LAMBDA i : mask[i])
    IN  [j \in DOMAIN idx |-> [index |-> idx[j], row |-> d[idx[j]]]]

detect_anomalies(d, features, threshold) ==
    SelectRows(d, AnomalyMask(d, features, threshold))

FeatureLists == {<<"amount">>, <<"is_fraud">>, <<"amount", "is_fraud">>}

ZThresholds == {Rat(-1, 1), Rat(0, 1), Rat(1, 2), Rat(1, 1), Rat(3, 1)}

(* the filter applied to self.data itself instead of to a copy *)
DetectAnomaliesInPlace ==
    \E features \in FeatureLists, threshold \in ZThresholds :
        /\ op' = "detect_anomalies"
        /\ args' = [features |-> features, threshold |-> threshold]
        /\ result' = detect_anomalies(data, features, threshold)
        /\ data' = [j \in DOMAIN result' |-> result'[j].row]
        /\ UNCHANGED <<creditData, fs>>

DetectAnomalies ==
    \E features \in FeatureLists, threshold \in ZThresholds :
        /\ op' = "detect_anomalies"
        /\ args' = [features |-> features, threshold |-> threshold]
        /\ result' = detect_anomalies(data, features, threshold)
        /\ UNCHANGED <<data, creditData, fs>>

----------------------------------------------------------------------------
(* FraudAnalyzer.calculate_velocity_metrics *)

(* Python truth value of the optional number amount_threshold: None and 0  *)
(* are false, every other number is true.                                  *)
Truthy(x) == x # None /\ Val(x) # 0

(* rows of self.data[self.data['amount'] > amount_threshold]: a missing    *)
(* amount compares False.                                                  *)
AmountAbove(d, amount_threshold) ==
    {i \in DOMAIN d : ~IsNA(d[i].amount) /\ Val(d[i].amount) > Val(amount_threshold)}

(* line 37-40: the rows the aggregation runs over *)
transactions(d, amount_threshold) ==
    IF Truthy(amount_threshold) THEN AmountAbove(d, amount_threshold)
    ELSE DOMAIN d

(* pd.Grouper(key='transaction_date', freq=time_window): the bucket of a   *)
(* timestamp; time is counted in whole units from the bucketing origin and *)
(* time_window is a number of units.                                       *)
Bucket(t, time_window) == t \div time_window

VelocityKey(d, i, time_window) ==
    <<Val(d[i].customer_id), Bucket(Val(d[i].transaction_date), time_window)>>

Keyed(d, I) == {i \in I : ~IsNA(d[i].customer_id) /\ ~IsNA(d[i].transaction_date)}

(* groupby([...]).agg({'transaction_id': 'count', 'amount': ['sum', 'mean']}) *)
(* over the rows I: a mapping from the observed (customer_id, bucket) keys *)
(* to the three statistics.                                                *)
VelocityAgg(d, I, time_window) ==
    LET keys == {VelocityKey(d, i, time_window) : i \in Keyed(d, I)}
        rows(k) == {i \in Keyed(d, I) : VelocityKey(d, i, time_window) = k}
    IN  [k \in keys |->
            [count |-> Count(d, "transaction_id", rows(k)),
             sum |-> Sum(d, "amount", rows(k)),
             mean |-> Mean(d, "amount", rows(k))]]

calculate_velocity_metrics(d, time_window, amount_threshold) ==
    VelocityAgg(d, transactions(d, amount_threshold), time_window)

TimeWindows == {1, 2}

AmountThresholds == {None, Some(0), Some(1)}

CalculateVelocityMetrics ==
    \E time_window \in TimeWindows, amount_threshold \in AmountThresholds :
        /\ op' = "calculate_velocity_metrics"
        /\ args' = [time_window |-> time_window,
                    amount_threshold |-> amount_threshold]
        /\ result' = calculate_velocity_metrics(data, time_window, amount_threshold)
        /\ UNCHANGED <<data, creditData, fs>>

----------------------------------------------------------------------------
(* Rounding and the square root, for the rounded aggregates *)

(* round(x, decimals) with scale = 10^decimals: the nearest multiple of    *)
(* 1/scale, a tie going to the even one; the result is the rational        *)
(* q/scale.                                                                *)
Round(x, scale) ==
    LET n == x.num * scale
        q == n \div x.den
        r == n % x.den
    IN  Rat(IF 2 * r > x.den \/ (2 * r = x.den /\ q % 2 = 1) THEN q + 1 ELSE q,
            scale)

RoundOpt(v, scale) == IF IsNA(v) THEN NaN ELSE Some(Round(Val(v), scale))

RECURSIVE ISqrt(_)
ISqrt(n) ==
    IF n < 2 THEN n
    ELSE LET r == 2 * ISqrt(n \div 4)
         IN  IF (r + 1) * (r + 1) <= n THEN r + 1 ELSE r

(* Series.std() of column c over the rows I, rounded to 1/scale:           *)
(* sqrt(V / (n*(n-1))) with V = n*sum(x^2) - sum(x)^2, NaN for n < 2.      *)
(* round(s * scale) = floor((sqrt(4*scale^2*s^2) + 1) / 2).                *)
StdRounded(d, c, I, scale) ==
    LET n == Count(d, c, I)
        V == n * SumSq(d, c, I) - Sum(d, c, I) * Sum(d, c, I)
    IN  IF n < 2 THEN NaN
        ELSE Some(Rat((ISqrt((4 * scale * scale * V) \div (n * (n - 1))) + 1) \div 2,
                      scale))

----------------------------------------------------------------------------
(* FraudAnalyzer.analyze_geographic_patterns *)

Thousand == 1000

analyze_geographic_patterns(d) ==
    LET keys == SortAsc(GroupKeys(d, "merchant_location"))
        rows(k) == GroupRows(d, "merchant_location", k)
    IN  [j \in DOMAIN keys |->
            [merchant_location |-> keys[j],
             transaction_id |-> Count(d, "transaction_id", rows(keys[j])),
             amount_mean |-> RoundOpt(Mean(d, "amount", rows(keys[j])), Thousand),
             amount_std |-> StdRounded(d, "amount", rows(keys[j]), Thousand),
             is_fraud |-> RoundOpt(Mean(d, "is_fraud", rows(keys[j])), Thousand)]]

AnalyzeGeographicPatterns ==
    /\ op' = "analyze_geographic_patterns"
    /\ args' = <<>>
    /\ result' = analyze_geographic_patterns(data)
    /\ UNCHANGED <<data, creditData, fs>>

----------------------------------------------------------------------------
(* CreditAnalyzer *)

HighRiskScore == 600

Hundred == 100

(* (self.data['credit_score'] < 600): a missing score compares False, so   *)
(* the boolean column has no missing value and one entry per row.          *)
BelowHighRiskScore(d) ==
    {i \in DOMAIN d : ~IsNA(d[i].credit_score) /\ Val(d[i].credit_score) < HighRiskScore}

(* the proportion taken over the rows with a score only, as a mean that    *)
(* skips missing scores would                                              *)
high_risk_proportion_skipna(d) ==
    IF Count(d, "credit_score", DOMAIN d) = 0 THEN NaN
    ELSE Some(Rat(Cardinality(BelowHighRiskScore(d)), Count(d, "credit_score", DOMAIN d)))

(* the mean of that boolean column: NaN only for a dataset with no rows *)
high_risk_proportion(d) ==
    IF Len(d) = 0 THEN NaN
    ELSE Some(Rat(Cardinality(BelowHighRiskScore(d)), Len(d)))

calculate_risk_metrics(d) ==
    [default_rate |-> Mean(d, "default", DOMAIN d),
     avg_credit_score |-> Mean(d, "credit_score", DOMAIN d),
     high_risk_proportion |-> high_risk_proportion(d)]

CalculateRiskMetrics ==
    /\ op' = "calculate_risk_metrics"
    /\ args' = <<>>
    /\ result' = calculate_risk_metrics(creditData)
    /\ UNCHANGED <<data, creditData, fs>>

segment_analysis(d, segment_column) ==
    LET keys == SortAsc(GroupKeys(d, segment_column))
        rows(k) == GroupRows(d, segment_column, k)
    IN  [j \in DOMAIN keys |->
            [segment |-> keys[j],
             default |-> RoundOpt(Mean(d, "default", rows(keys[j])), Hundred),
             credit_score |-> RoundOpt(Mean(d, "credit_score", rows(keys[j])), Hundred),
             loan_amount |-> RoundOpt(Mean(d, "loan_amount", rows(keys[j])), Hundred)]]

SegmentColumns == {"region"}

SegmentAnalysis ==
    \E segment_column \in SegmentColumns :
        /\ op' = "segment_analysis"
        /\ args' = [segment_column |-> segment_column]
        /\ result' = segment_analysis(creditData, segment_column)
        /\ UNCHANGED <<data, creditData, fs>>

(* DataFrame.corr(): Pearson's r of columns x and y over the rows where    *)
(* both are present, r = c / sqrt(vx * vy) with c = n*sum(xy) - sum(x)sum(y)*)
(* and vx = n*sum(x^2) - sum(x)^2; NaN when a variance is 0 (which covers  *)
(* fewer than two common rows). r is given as its sign and its square.     *)
Pearson(d, x, y) ==
    LET I == Present(d, x, DOMAIN d) \cap Present(d, y, DOMAIN d)
        n == Cardinality(I)
        sx == Sum(d, x, I)
        sy == Sum(d, y, I)
        c == n * SetSum([i \in I |-> Val(d[i][x]) * Val(d[i][y])], I) - sx * sy
        vx == n * SumSq(d, x, I) - sx * sx
        vy == n * SumSq(d, y, I) - sy * sy
    IN  IF vx = 0 \/ vy = 0 THEN NaN
        ELSE Some([sign |-> IF c > 0 THEN 1 ELSE IF c < 0 THEN -1 ELSE 0,
                   square |-> Rat(c * c, vx * vy)])

risk_correlation_analysis(d, features) ==
    [i \in DOMAIN features |->
        [j \in DOMAIN features |-> Pearson(d, features[i], features[j])]]

CorrelationFeatures == {<<"credit_score", "loan_amount">>, <<"default", "credit_score">>}

RiskCorrelationAnalysis ==
    \E features \in CorrelationFeatures :
        /\ op' = "risk_correlation_analysis"
        /\ args' = [features |-> features]
        /\ result' = risk_correlation_analysis(creditData, features)
        /\ UNCHANGED <<data, creditData, fs>>

----------------------------------------------------------------------------
(* load_data *)

(* pd.read_csv(file_path): raises for a path with no file behind it and    *)
(* for content it cannot parse, returns the table otherwise.               *)
read_csv(files, file_path) ==
    CASE files[file_path].kind = "missing" ->
            [raised |-> "FileNotFoundError", df |-> <<>>]
      [] files[file_path].kind = "malformed" ->
            [raised |-> "ParserError", df |-> <<>>]
      [] OTHER ->
            [raised |-> "none", df |-> files[file_path].table]

(* load_data without its except clause: the exception leaves the function *)
load_data_uncaught(files, file_path) ==
    LET r == read_csv(files, file_path)
    IN  [raised |-> r.raised,
         value |-> IF r.raised = "none" THEN Some(r.df) ELSE None,
         printed |-> <<>>]

(* try: return pd.read_csv(file_path); except Exception as e: print(...);  *)
(* return None                                                             *)
load_data(files, file_path) ==
    LET r == read_csv(files, file_path)
    IN  IF r.raised = "none"
        THEN [raised |-> "none", value |-> Some(r.df), printed |-> <<>>]
        ELSE [raised |-> "none", value |-> None,
              printed |-> <<"Error loading data from", file_path, r.raised>>]

Paths == {"a.csv", "b.csv", "c.csv"}

LoadData ==
    \E file_path \in Paths :
        /\ op' = "load_data"
        /\ args' = [file_path |-> file_path]
        /\ result' = load_data(fs, file_path)
        /\ UNCHANGED <<data, creditData, fs>>

----------------------------------------------------------------------------
(* Datasets the operations are run on *)

(* a transaction record and a credit record: the columns the operations read *)
Txn(customer_id, transaction_id, transaction_date, amount, merchant_location, merchant_category, is_fraud) ==
    [customer_id |-> customer_id, transaction_id |-> transaction_id,
     transaction_date |-> transaction_date, amount |-> amount,
     merchant_location |-> merchant_location,
     merchant_category |-> merchant_category, is_fraud |-> is_fraud]

Credit(default, credit_score, loan_amount, region) ==
    [default |-> default, credit_score |-> credit_score,
     loan_amount |-> loan_amount, region |-> region]

Flags == {Some(0), Some(1), NaN}

MerchantRows ==
    {Txn(Some(1), Some(1), Some(0), Some(1), Some(1), Some(cat), Some(fraud)) :
        cat \in {1, 2, 3}, fraud \in {0, 1}}
    \cup {Txn(Some(1), Some(1), Some(0), Some(1), Some(1), Some(1), NaN),
          Txn(Some(1), NaN, Some(0), Some(1), Some(1), Some(1), Some(1)),
          Txn(Some(1), Some(1), Some(0), Some(1), Some(1), NaN, Some(1))}

AnomalyRows ==
    {Txn(Some(1), Some(1), Some(0), cell[1], Some(1), Some(1), cell[2]) :
        cell \in {<<Some(0), Some(0)>>, <<Some(5), Some(0)>>, <<Some(10), Some(0)>>,
                  <<Some(0), Some(1)>>, <<NaN, Some(1)>>,
                  <<Some(5), NaN>>, <<NaN, NaN>>}}

ScenarioAmounts == <<10, 10, 10, 10, 1000>>

ScenarioDatasets ==
    {[i \in DOMAIN ScenarioAmounts |->
        Txn(Some(1), Some(i), Some(0), Some(a[i]), Some(1), Some(1), Some(0))] :
        a \in [DOMAIN ScenarioAmounts -> Range(ScenarioAmounts)]}

VelocityRows ==
    {Txn(Some(key[1]), Some(1), Some(key[2]), amount, Some(1), Some(1), Some(0)) :
        key \in {<<1, 0>>, <<1, 1>>, <<2, 0>>}, amount \in {Some(0), Some(2), NaN}}

CreditRows ==
    {Credit(default, score, Some(1), Some(1)) :
        default \in Flags, score \in {Some(590), Some(610), NaN}}

TxnPool ==
    {Txn(Some(1), Some(1), Some(0), Some(0), Some(1), Some(1), Some(0)),
     Txn(Some(1), Some(2), Some(1), Some(5), Some(1), Some(2), Some(1)),
     Txn(Some(2), Some(3), Some(2), NaN, Some(2), Some(1), Some(1))}

CreditPool ==
    {Credit(Some(1), Some(590), Some(1), Some(1)),
     Credit(Some(0), Some(610), Some(2), Some(2)),
     Credit(NaN, NaN, Some(2), Some(1))}

FileContents ==
    {[kind |-> "missing", table |-> <<>>], [kind |-> "malformed", table |-> <<>>]}
    \cup {[kind |-> "csv", table |-> t] : t \in SeqsUpTo(CreditPool, 1)}

NoFiles == [p \in Paths |-> [kind |-> "missing", table |-> <<>>]]

NoCall ==
    /\ op = "none"
    /\ args = <<>>
    /\ result = <<>>

InitMerchants ==
    /\ data \in SeqsUpTo(MerchantRows, MaxRows)
    /\ creditData = <<>>
    /\ fs = NoFiles
    /\ NoCall

InitAnomalies ==
    /\ data \in SeqsUpTo(AnomalyRows, MaxRows)
    /\ creditData = <<>>
    /\ fs = NoFiles
    /\ NoCall

InitScenario ==
    /\ data \in ScenarioDatasets
    /\ creditData = <<>>
    /\ fs = NoFiles
    /\ NoCall

InitVelocity ==
    /\ data \in SeqsUpTo(VelocityRows, MaxRows)
    /\ creditData = <<>>
    /\ fs = NoFiles
    /\ NoCall

InitCredit ==
    /\ data = <<>>
    /\ creditData \in SeqsUpTo(CreditRows, MaxRows)
    /\ fs = NoFiles
    /\ NoCall

InitLoader ==
    /\ data = <<>>
    /\ creditData = <<>>
    /\ fs \in [Paths -> FileContents]
    /\ NoCall

Init ==
    /\ \/ /\ data \in SeqsUpTo(TxnPool, MaxRows)
          /\ creditData = <<>>
          /\ fs = NoFiles
       \/ /\ data = <<>>
          /\ creditData \in SeqsUpTo(CreditPool, MaxRows)
          /\ fs = NoFiles
       \/ /\ data = <<>>
          /\ creditData = <<>>
          /\ fs \in [Paths -> FileContents]
    /\ NoCall

Next ==
    \/ CalculateVelocityMetrics
    \/ DetectAnomalies
    \/ AnalyzeGeographicPatterns
    \/ GetHighRiskMerchants
    \/ CalculateRiskMetrics
    \/ SegmentAnalysis
    \/ RiskCorrelationAnalysis
    \/ LoadData

Spec == Init /\ [][Next]_vars

SpecMerchants == InitMerchants /\ [][GetHighRiskMerchants]_vars

SpecAnomalies == InitAnomalies /\ [][DetectAnomalies]_vars

SpecScenario == InitScenario /\ [][DetectAnomalies]_vars

SpecVelocity == InitVelocity /\ [][CalculateVelocityMetrics]_vars

SpecCredit == InitCredit /\ [][CalculateRiskMetrics]_vars

SpecLoader == InitLoader /\ [][LoadData]_vars

----------------------------------------------------------------------------
(* Properties of get_high_risk_merchants, under SpecMerchants *)

(* The claims are stated on the rows of the dataset, not on the aggregated *)
(* table: the rows of category g, how many of them carry a transaction_id, *)
(* how many carry an is_fraud flag and how many of those are frauds.       *)
CategoryRows(g) == {i \in DOMAIN data : data[i].merchant_category = Some(g)}

Categories == {data[i].merchant_category[1] :
                  i \in {k \in DOMAIN data : data[k].merchant_category # NaN}}

TransactionCount(g) ==
    Cardinality({i \in CategoryRows(g) : data[i].transaction_id # NaN})

Flagged(g) == Cardinality({i \in CategoryRows(g) : data[i].is_fraud # NaN})

Frauds(g) == Cardinality({i \in CategoryRows(g) : data[i].is_fraud = Some(1)})

Qualifies(g) ==
    /\ TransactionCount(g) >= args.min_transactions
    /\ Flagged(g) > 0
    /\ Frauds(g) * args.risk_threshold.den >= args.risk_threshold.num * Flagged(g)

(* C1: get_high_risk_merchants returns exactly the merchant_category groups *)
(* whose transaction count is >= min_transactions and whose fraud rate is  *)
(* >= risk_threshold: every returned group satisfies both inclusive bounds *)
(* and carries its group's count and rate, every group that satisfies both *)
(* is returned, once, and when none qualifies the result is empty.         *)
C1_ExactlyQualifying ==
    op = "get_high_risk_merchants" =>
        /\ \A j \in DOMAIN result :
              /\ result[j].merchant_category \in Categories
              /\ Qualifies(result[j].merchant_category)
              /\ result[j].transaction_id = TransactionCount(result[j].merchant_category)
              /\ RatEQ(Val(result[j].is_fraud),
                       Rat(Frauds(result[j].merchant_category),
                           Flagged(result[j].merchant_category)))
        /\ \A g \in Categories :
              Qualifies(g) => \E j \in DOMAIN result : result[j].merchant_category = g
        /\ \A j, k \in DOMAIN result :
              j # k => result[j].merchant_category # result[k].merchant_category
        /\ (\A g \in Categories : ~Qualifies(g)) => result = <<>>

(* C1 witness: a call that returns a group sitting exactly on both bounds  *)
(* and leaves out another group of the dataset.                            *)
C1_Witness ==
    /\ op = "get_high_risk_merchants"
    /\ \E j \in DOMAIN result :
          /\ result[j].transaction_id = args.min_transactions
          /\ RatEQ(Val(result[j].is_fraud), args.risk_threshold)
    /\ \E g \in Categories : ~Qualifies(g)
    /\ args.min_transactions > 0
    /\ args.risk_threshold.num > 0

(* C2 as stated: the returned groups are ordered by fraud rate descending, *)
(* and groups with equal fraud rate appear in ascending merchant_category  *)
(* order.                                                                  *)
C2_TiesByAscendingCategory ==
    op = "get_high_risk_merchants" =>
        \A i, j \in DOMAIN result :
            i < j =>
                \/ RatGT(Val(result[i].is_fraud), Val(result[j].is_fraud))
                \/ /\ RatEQ(Val(result[i].is_fraud), Val(result[j].is_fraud))
                   /\ result[i].merchant_category < result[j].merchant_category

(* C2 as amended: the returned groups are ordered by fraud rate descending *)
(* (no earlier group has a lower fraud rate than a later one); the order   *)
(* of groups with equal fraud rate is not determined.                      *)
C2_DescendingByFraudRate ==
    op = "get_high_risk_merchants" =>
        \A i, j \in DOMAIN result :
            i < j =>
                Val(result[i].is_fraud).num * Val(result[j].is_fraud).den
                    >= Val(result[j].is_fraud).num * Val(result[i].is_fraud).den

(* C2 witness: three groups returned, two of them with different fraud     *)
(* rates and two with the same fraud rate.                                 *)
C2_Witness ==
    /\ op = "get_high_risk_merchants"
    /\ Len(result) = 3
    /\ \E i, j \in DOMAIN result :
          RatGT(Val(result[i].is_fraud), Val(result[j].is_fraud))
    /\ \E i, j \in DOMAIN result :
          i # j /\ RatEQ(Val(result[i].is_fraud), Val(result[j].is_fraud))

----------------------------------------------------------------------------
(* Properties of detect_anomalies, under SpecAnomalies and SpecScenario *)

(* The z-score of the claims, from its definition: over the rows that have *)
(* a value of feature f, n is their number and Deviation(f, i) is n times  *)
(* (value - mean); the sample standard deviation (ddof=1) is               *)
(* sqrt(SquaredDeviations / (n^2 * (n-1))), so that                        *)
(* |z|^2 = Deviation^2 * (n-1) / SquaredDeviations.                        *)
WithValue(f) == {i \in DOMAIN data : data[i][f] # NaN}

Total(f) == SetSum([i \in WithValue(f) |-> data[i][f][1]], WithValue(f))

Deviation(f, i) == Cardinality(WithValue(f)) * data[i][f][1] - Total(f)

SquaredDeviations(f) ==
    SetSum([i \in WithValue(f) |-> Deviation(f, i) * Deviation(f, i)], WithValue(f))

(* the z-score of row i for feature f is defined: the row has a value, and *)
(* the feature has two values that differ (a standard deviation that is    *)
(* neither undefined nor zero)                                             *)
ZDefined(f, i) ==
    /\ i \in WithValue(f)
    /\ \E j, k \in WithValue(f) : data[j][f] # data[k][f]

(* |z| > t, for a defined z *)
ZAbove(f, i, t) ==
    \/ t.num < 0
    \/ Deviation(f, i) * Deviation(f, i) * (Cardinality(WithValue(f)) - 1) * t.den * t.den
           > t.num * t.num * SquaredDeviations(f)

Anomalous(i) ==
    \E k \in DOMAIN args.features :
        ZDefined(args.features[k], i) /\ ZAbove(args.features[k], i, args.threshold)

Indices(r) == {r[j].index : j \in DOMAIN r}

(* C3: detect_anomalies(features, threshold) returns exactly the rows for  *)
(* which the absolute z-score (sample std, ddof=1) of at least one listed  *)
(* feature is strictly greater than threshold; the returned rows keep all  *)
(* their columns and the relative order they have in the dataset.          *)
C3_ExactlyAnomalousRows ==
    op = "detect_anomalies" =>
        /\ \A j \in DOMAIN result :
              /\ result[j].index \in DOMAIN data
              /\ result[j].row = data[result[j].index]
              /\ Anomalous(result[j].index)
        /\ \A i \in DOMAIN data : Anomalous(i) => i \in Indices(result)
        /\ \A j, k \in DOMAIN result : j < k => result[j].index < result[k].index

(* C3 witness: a call with two features and a threshold >= 0 that returns  *)
(* some rows and not others, one of them exceeding in one feature only.    *)
C3_Witness ==
    /\ op = "detect_anomalies"
    /\ Len(args.features) = 2
    /\ args.threshold.num >= 0
    /\ Len(result) >= 2
    /\ Len(result) < Len(data)
    /\ \E j \in DOMAIN result :
          /\ ZDefined(args.features[1], result[j].index)
          /\ ZDefined(args.features[2], result[j].index)
          /\ ZAbove(args.features[1], result[j].index, args.threshold)
          /\ ~ZAbove(args.features[2], result[j].index, args.threshold)

InScenario ==
    /\ op = "detect_anomalies"
    /\ [i \in DOMAIN data |-> data[i].amount[1]] = ScenarioAmounts
    /\ args.features = <<"amount">>
    /\ args.threshold = Rat(3, 1)

(* C4 as stated: with amount = [10,10,10,10,1000], one feature and         *)
(* threshold 3.0, detect_anomalies flags the row with amount 1000 and none *)
(* of the four rows with amount 10.                                        *)
C4_FlagsTheLargeAmount == InScenario => Indices(result) = {5}

(* C4 as amended: in that scenario detect_anomalies returns no row: the    *)
(* row with amount 1000 has |z| = 4/sqrt(5) (z^2 = 16/5, about 1.79) and   *)
(* the four rows with amount 10 have |z| = 1/sqrt(5) (about 0.45), none    *)
(* above 3.0.                                                              *)
C4_FlagsNoRow ==
    InScenario =>
        /\ result = <<>>
        /\ 5 * Deviation("amount", 5) * Deviation("amount", 5) * 4
               = 16 * SquaredDeviations("amount")
        /\ \A i \in 1..4 :
              5 * Deviation("amount", i) * Deviation("amount", i) * 4
                  = 1 * SquaredDeviations("amount")

(* C4 witness: the scenario's call has been made. *)
C4_Witness == InScenario /\ Len(data) = 5 /\ result = <<>>

(* C5: detect_anomalies is monotone in threshold: a call with the same     *)
(* features and a greater threshold returns a subset of the rows.          *)
C5_MonotoneInThreshold ==
    [][(/\ op = "detect_anomalies"
        /\ op' = "detect_anomalies"
        /\ args'.features = args.features
        /\ RatGT(args'.threshold, args.threshold))
          => Indices(result') \subseteq Indices(result)]_vars

(* C5 witness: a call that returns some rows, but fewer than a smaller     *)
(* threshold selects from the same dataset with the same features.         *)
C5_Witness ==
    /\ op = "detect_anomalies"
    /\ result # <<>>
    /\ \E t \in ZThresholds :
          /\ RatGT(args.threshold, t)
          /\ t.num >= 0
          /\ Len(detect_anomalies(data, args.features, t)) > Len(result)

(* C10: an undefined z-score never flags a row: every returned row has a   *)
(* listed feature whose z-score is defined (the row has a value for it and *)
(* the feature's standard deviation is neither zero nor undefined) and     *)
(* above threshold; a feature the row has no value for, or whose values    *)
(* are all equal or fewer than two, does not make it anomalous.            *)
C10_UndefinedNeverFlags ==
    op = "detect_anomalies" =>
        /\ \A j \in DOMAIN result :
              \E k \in DOMAIN args.features :
                  /\ ZDefined(args.features[k], result[j].index)
                  /\ ZAbove(args.features[k], result[j].index, args.threshold)
        /\ \A i \in DOMAIN data :
              (\A k \in DOMAIN args.features : ~ZDefined(args.features[k], i))
                  => i \notin Indices(result)

(* C10 witness: under a negative threshold, which every defined z-score    *)
(* exceeds, a row with no defined z-score is left out and a row is         *)
(* returned that has no value for one of the two listed features.          *)
C10_Witness ==
    /\ op = "detect_anomalies"
    /\ args.threshold.num < 0
    /\ Len(args.features) = 2
    /\ \E i \in DOMAIN data : i \notin Indices(result)
    /\ \E j \in DOMAIN result :
          \E k \in DOMAIN args.features : data[result[j].index][args.features[k]] = NaN

----------------------------------------------------------------------------
(* Property of calculate_velocity_metrics, under SpecVelocity *)

(* the rows with an amount strictly greater than the supplied threshold *)
Contributing ==
    {i \in DOMAIN data :
        /\ data[i].amount # NaN
        /\ data[i].amount[1] > args.amount_threshold[1]
        /\ data[i].customer_id # NaN
        /\ data[i].transaction_date # NaN}

GroupOf(i) ==
    <<data[i].customer_id[1], data[i].transaction_date[1] \div args.time_window>>

ContributingTo(k) == {i \in Contributing : GroupOf(i) = k}

(* C6: whenever amount_threshold is supplied (any value other than None,   *)
(* including 0), only rows with amount strictly greater than it contribute *)
(* to the per-(customer_id, time bucket) count, sum and mean: the groups   *)
(* are those of the contributing rows, and each group's statistics are     *)
(* those of its contributing rows.                                         *)
C6_SuppliedThresholdFilters ==
    (op = "calculate_velocity_metrics" /\ args.amount_threshold # None) =>
        /\ DOMAIN result = {GroupOf(i) : i \in Contributing}
        /\ \A k \in DOMAIN result :
              /\ result[k].count
                    = Cardinality({i \in ContributingTo(k) : data[i].transaction_id # NaN})
              /\ result[k].sum
                    = SetSum([i \in ContributingTo(k) |-> data[i].amount[1]],
                             ContributingTo(k))
              /\ result[k].mean
                    = Some(Rat(result[k].sum, Cardinality(ContributingTo(k))))

----------------------------------------------------------------------------
(* Property of calculate_risk_metrics, under SpecCredit *)

AllMissing(c) == \A i \in DOMAIN creditData : creditData[i][c] = NaN

(* C7 as stated: each of default_rate, avg_credit_score and               *)
(* high_risk_proportion is NaN when the dataset is empty or when the       *)
(* column it is computed from is entirely missing.                         *)
C7_EachStatisticNaN ==
    op = "calculate_risk_metrics" =>
        /\ AllMissing("default") => result.default_rate = NaN
        /\ AllMissing("credit_score") => result.avg_credit_score = NaN
        /\ AllMissing("credit_score") => result.high_risk_proportion = NaN

(* C7 as amended: default_rate and avg_credit_score are NaN exactly when   *)
(* the dataset is empty or their column (default, credit_score) is         *)
(* entirely missing; high_risk_proportion is NaN exactly when the dataset  *)
(* is empty, and is 0 when credit_score is entirely missing in a dataset   *)
(* that has rows.                                                          *)
C7_NaNWhenNothingToAverage ==
    op = "calculate_risk_metrics" =>
        /\ result.default_rate = NaN <=> AllMissing("default")
        /\ result.avg_credit_score = NaN <=> AllMissing("credit_score")
        /\ result.high_risk_proportion = NaN <=> creditData = <<>>
        /\ (creditData # <<>> /\ AllMissing("credit_score"))
              => result.high_risk_proportion[1].num = 0

(* C7 witness: the metrics of a dataset that has rows, none with a         *)
(* credit_score and none with a default flag.                              *)
C7_Witness ==
    /\ op = "calculate_risk_metrics"
    /\ Len(creditData) >= 2
    /\ AllMissing("credit_score")
    /\ AllMissing("default")
    /\ result.default_rate = NaN

----------------------------------------------------------------------------
(* Frame property of the analyzers, under Spec *)

(* C8: no operation of CreditAnalyzer or FraudAnalyzer changes the dataset *)
(* its analyzer was constructed with, so a call repeated with the same     *)
(* arguments returns the same result (for get_high_risk_merchants, whose   *)
(* sort leaves the order of equal fraud rates open, the same rows).        *)
C8_DatasetNeverChanged ==
    [][/\ data' = data
       /\ creditData' = creditData
       /\ (op' = op /\ args' = args) =>
             IF op' = "get_high_risk_merchants"
             THEN Range(result') = Range(result)
             ELSE result' = result]_vars

(* C8 witness: after a detect_anomalies call that returned some rows of    *)
(* the dataset and not others, the dataset still has all its rows.         *)
C8_Witness ==
    /\ op = "detect_anomalies"
    /\ result # <<>>
    /\ Len(result) < Len(data)
    /\ Len(data) = MaxRows

----------------------------------------------------------------------------
(* Property of load_data, under SpecLoader *)

(* C9: load_data never raises past its own boundary: when the read fails   *)
(* (missing file, malformed content) it returns None after printing a      *)
(* message, and when the read succeeds it returns the loaded dataset.      *)
C9_NeverRaises ==
    op = "load_data" =>
        /\ result.raised = "none"
        /\ fs[args.file_path].kind \in {"missing", "malformed"} =>
              /\ result.value = None
              /\ result.printed # <<>>
        /\ fs[args.file_path].kind = "csv" =>
              result.value = Some(fs[args.file_path].table)

(* C9 witness: load_data was called on a path whose content is malformed   *)
(* and returned None, with a file that loads at the other path.            *)
C9_Witness ==
    /\ op = "load_data"
    /\ fs[args.file_path].kind = "malformed"
    /\ result.value = None
    /\ \E p \in Paths : fs[p].kind = "csv" /\ fs[p].table # <<>>

====
